---- MODULE Spec2Model ----
(***************************************************************************)
(* Cache grid of the geocoin game (src/src/main.ts): the flyweight cell    *)
(* registry, the Cache entity with its JSON memento, the memento           *)
(* directory, the neighbourhood spawner, teardown, the collect / deposit   *)
(* transfers and the reset handler.                                        *)
(*                                                                         *)
(* Representation.                                                         *)
(*  - A coordinate is an integer number of half tiles (5e-5 degrees), so   *)
(*    TILE_DEGREES is 2 units and Math.floor(x / TILE_DEGREES) is x \div 2.*)
(*  - A Cell object is [i, j, canon]; canon is TRUE for the instance the   *)
(*    CellFactory owns and FALSE for an object JSON.parse allocated.       *)
(*    getCell(i, j) is that one canonical instance; the registry Map       *)
(*    behind it has no other effect on the game, so the game's handlers    *)
(*    leave it alone and SpecRegistry checks it on its own: there a Cell   *)
(*    object is [i, j, id], id numbering the object literals evaluated.    *)
(*  - A Coin object is [cell, serial]; a Cache is [coins, position].       *)
(*  - A memento (a JSON string) is the data JSON.stringify keeps:          *)
(*    [coins |-> <<[cell |-> [i, j], serial]>>, position |-> [i, j]].      *)
(*  - A Map<string, X> keyed by `${i},${j}` is keyed by <<i, j>>.          *)
(*  - layers is the list of cache rectangles on the leaflet map, in the    *)
(*    order map.eachLayer visits them (insertion order).                   *)
(*  - event is a history variable: the handler that ran last, the          *)
(*    functions it called (each function logs its own call), and the       *)
(*    arguments of a collect / deposit with the index indexOf returned.    *)
(***************************************************************************)
EXTENDS Integers, Sequences, FiniteSets, TLC

\* ---------------------------------------------------------------- bounds
\* the player's latitude stays within -(MaxCoord+1) .. MaxCoord half tiles
MaxCoord == 1
\* the player's longitude stays within -LngSpan .. -1 half tiles
LngSpan == 2
\* luck(i, j, "initialValue") is at most MaxInitialCoins hundredths
MaxInitialCoins == 2
\* the neighbourhood half width used for checking (8 in the source)
NEIGHBORHOOD_SIZE == 1
\* longest coin list the codec specification draws
MaxLen == 2

\* ------------------------------------------------------ program constants
TILE_DEGREES == 2
\* CACHE_SPAWN_PROBABILITY = 0.1, in hundredths
CACHE_SPAWN_PROBABILITY == 10
\* OAKES_CLASSROOM: positive latitude, negative longitude, inside a tile
OAKES_CLASSROOM == [lat |-> 1, lng |-> -1]

NULL == 0

VARIABLES
    player,              \* Player.position: [lat, lng]
    playerCoins,         \* the inventory, a sequence of Coin
    layers,              \* cache rectangles on the map: a sequence of Cache
    existingRectangles,  \* keys of the existingRectangles Map
    cacheMementos,       \* the directory: key -> memento
    geolocationWatchId,  \* NULL or the id watchPosition returned
    watches,             \* ids registered with navigator.geolocation
    event,               \* history: the handler that ran last
    rt,                  \* codec specification: cache, memento, restored cache
    factory,             \* registry specification: CellFactory.cellCache,
                         \* the objects allocated, the last getCell call
    runs                 \* replay specification: two runs of the program

vars == <<player, playerCoins, layers, existingRectangles, cacheMementos,
          geolocationWatchId, watches, event, rt, factory, runs>>

\* --------------------------------------------------------------- helpers
Coords == (0 - (MaxCoord + 1)) .. MaxCoord

LngCoords == (0 - LngSpan) .. (0 - 1)

EmptyMap == [k \in {} |-> 0]

MapSet(m, key, value) ==
    [k \in (DOMAIN m) \cup {key} |-> IF k = key THEN value ELSE m[k]]

Range(s) == {s[k] : k \in DOMAIN s}

RECURSIVE indexOfFrom(_, _, _)
indexOfFrom(s, x, k) ==
    IF k > Len(s) THEN 0
    ELSE IF s[k] = x THEN k
    ELSE indexOfFrom(s, x, k + 1)

\* Array.prototype.indexOf, 1-based; 0 stands for -1
indexOf(s, x) == indexOfFrom(s, x, 1)

\* Array.prototype.splice(index, 1)
splice(s, k) == SubSeq(s, 1, k - 1) \o SubSeq(s, k + 1, Len(s))

\* ------------------------------------------------------------------ luck
\* luck(key) of luck.ts, a fixed hash of the key into [0, 1), in hundredths
luck(i, j) == (16 * i + 79 * j + 79) % 100

luckInitialValue(i, j) == (10 * i + j * j + 10) % (MaxInitialCoins + 1)

\* ----------------------------------------------------------- CellFactory
getCell(i, j) == [i |-> i, j |-> j, canon |-> TRUE]

\* variant: the quotients are truncated toward zero
getCellFromLatLng_truncates(lat, lng) ==
    getCell(IF lat < 0 THEN 0 - ((0 - lat) \div TILE_DEGREES)
            ELSE lat \div TILE_DEGREES,
            IF lng < 0 THEN 0 - ((0 - lng) \div TILE_DEGREES)
            ELSE lng \div TILE_DEGREES)

getCellFromLatLng(lat, lng) ==
    getCell(lat \div TILE_DEGREES, lng \div TILE_DEGREES)

\* ----------------------------------------------------------------- Cache
NewCache(position) == [coins |-> <<>>, position |-> position]

positionToString(cache) == <<cache.position.i, cache.position.j>>

stringifyCell(cell) == [i |-> cell.i, j |-> cell.j]

parseCell(data) == [i |-> data.i, j |-> data.j, canon |-> FALSE]

RECURSIVE mapCoinsToData(_)
mapCoinsToData(coins) ==
    IF coins = <<>> THEN <<>>
    ELSE <<[cell |-> stringifyCell(Head(coins).cell),
            serial |-> Head(coins).serial]>> \o mapCoinsToData(Tail(coins))

RECURSIVE mapDataToCoins(_)
mapDataToCoins(data) ==
    IF data = <<>> THEN <<>>
    ELSE <<[cell |-> parseCell(Head(data).cell),
            serial |-> Head(data).serial]>> \o mapDataToCoins(Tail(data))

toMemento(cache) ==
    [coins |-> mapCoinsToData(cache.coins),
     position |-> stringifyCell(cache.position)]

\* variant: fromMemento that restores the coins only
fromMemento_keepsPosition(cache, memento) ==
    [cache EXCEPT !.coins = mapDataToCoins(memento.coins)]

\* variant: fromMemento that leaves out the last coin of the memento
fromMemento_dropsLast(cache, memento) ==
    [cache EXCEPT !.position = parseCell(memento.position),
                  !.coins = mapDataToCoins(
                                SubSeq(memento.coins, 1,
                                       Len(memento.coins) - 1))]

fromMemento(cache, memento) ==
    [cache EXCEPT !.position = parseCell(memento.position),
                  !.coins = mapDataToCoins(memento.coins)]

\* --------------------------------------------------------------- spawner
\* The functions below take and return the record of the module's globals
\* w = [layers, existingRectangles, cacheMementos, playerCoins, calls];
\* calls lists the functions the running handler has entered, and every
\* return of spawnCache before it adds a rectangle.
\* variant: the serials run from 1 to initialCoins
mintCoins_fromOne(cell, serial, initialCoins) ==
    [n \in 1..initialCoins |-> [cell |-> cell, serial |-> serial + n]]

RECURSIVE mintCoins(_, _, _)
mintCoins(cell, serial, initialCoins) ==
    IF serial >= initialCoins THEN <<>>
    ELSE <<[cell |-> cell, serial |-> serial]>>
         \o mintCoins(cell, serial + 1, initialCoins)

\* variant: spawnCache that never consults the Directory
spawnCache_alwaysFresh(w, i, j) ==
    LET cell == getCell(i, j)
        cache == [NewCache(cell) EXCEPT !.coins =
                     mintCoins(cell, 0, luckInitialValue(i, j))]
    IN  [w EXCEPT !.layers = Append(@, cache),
                  !.existingRectangles = @ \cup {<<i, j>>}]

spawnCache(w, i, j) ==
    LET cell == getCell(i, j)
        positionKey == <<i, j>>
        hasMemento == positionKey \in DOMAIN w.cacheMementos
    IN  IF positionKey \in w.existingRectangles /\ hasMemento
        THEN [w EXCEPT !.calls = Append(@, "spawnCache returns early")]
        ELSE LET cache ==
                   IF hasMemento
                   THEN fromMemento(NewCache(cell),
                                    w.cacheMementos[positionKey])
                   ELSE [NewCache(cell) EXCEPT !.coins =
                            mintCoins(cell, 0, luckInitialValue(i, j))]
             IN  [w EXCEPT !.layers = Append(@, cache),
                            !.existingRectangles = @ \cup {positionKey}]

\* the cells the two nested loops visit, in the order they visit them:
\* i and j run from -NEIGHBORHOOD_SIZE while below upper
loopCells(centerCell, upper) ==
    LET width == upper + NEIGHBORHOOD_SIZE
    IN  [n \in 1..(width * width) |->
            <<centerCell.i + ((n - 1) \div width) - NEIGHBORHOOD_SIZE,
              centerCell.j + ((n - 1) % width) - NEIGHBORHOOD_SIZE>>]

\* spawnCache for each visited cell that passes the luck test
RECURSIVE spawnEach(_, _)
spawnEach(w, cells) ==
    IF cells = <<>> THEN w
    ELSE spawnEach(spawnCache(w, Head(cells)[1], Head(cells)[2]),
                   Tail(cells))

\* variant: the loops run while i <= NEIGHBORHOOD_SIZE, j <= NEIGHBORHOOD_SIZE
spawnLoop_inclusive(w, centerCell) ==
    spawnEach(w, SelectSeq(loopCells(centerCell, NEIGHBORHOOD_SIZE + 1),
                           LAMBDA c : luck(c[1], c[2])
                                          < CACHE_SPAWN_PROBABILITY))

spawnLoop(w, centerCell) ==
    spawnEach(w, SelectSeq(loopCells(centerCell, NEIGHBORHOOD_SIZE),
                           LAMBDA c : luck(c[1], c[2])
                                          < CACHE_SPAWN_PROBABILITY))

spawnNearbyCaches(w, center) ==
    LET centerCell == getCellFromLatLng(center.lat, center.lng)
    IN  spawnLoop([w EXCEPT !.calls = Append(@, "spawnNearbyCaches")],
                  centerCell)

\* --------------------------------------------------------------- teardown
\* map.eachLayer over the cache rectangles: capture each, remove each
RECURSIVE captureAll(_, _)
captureAll(ls, mementos) ==
    IF ls = <<>> THEN mementos
    ELSE captureAll(Tail(ls),
                    MapSet(mementos, positionToString(Head(ls)),
                           toMemento(Head(ls))))

\* variant: clearCaches that removes the layers without capturing them
clearCaches_noCapture(w) ==
    [w EXCEPT !.layers = <<>>,
              !.existingRectangles = {},
              !.calls = Append(@, "clearCaches")]

\* variant: clearCaches that starts the capture from an empty Directory
clearCaches_fromEmpty(w) ==
    [w EXCEPT !.cacheMementos = captureAll(w.layers, EmptyMap),
              !.layers = <<>>,
              !.existingRectangles = {},
              !.calls = Append(@, "clearCaches")]

\* variant: clearCaches without existingRectangles.clear()
clearCaches_keepRectangles(w) ==
    [w EXCEPT !.cacheMementos = captureAll(w.layers, w.cacheMementos),
              !.layers = <<>>,
              !.calls = Append(@, "clearCaches")]

clearCaches(w) ==
    [w EXCEPT !.cacheMementos = captureAll(w.layers, w.cacheMementos),
              !.layers = <<>>,
              !.existingRectangles = {},
              !.calls = Append(@, "clearCaches")]

\* variant: movePlayer that respawns without tearing down
movePlayer_noClear(w, newPosition) == spawnNearbyCaches(w, newPosition)

movePlayer(w, newPosition) == spawnNearbyCaches(clearCaches(w), newPosition)

\* -------------------------------------------------------------- transfers
\* the cache argument is the cache of the rectangle layers[k]
\* variant: collect without the coinIndex >= 0 test; splice(-1, 1) removes
\* the last element
collect_unguarded(w, coin, k) ==
    LET coinIndex == indexOf(w.layers[k].coins, coin)
        cache == [w.layers[k] EXCEPT !.coins =
                     IF coinIndex >= 1 THEN splice(@, coinIndex)
                     ELSE SubSeq(@, 1, Len(@) - 1)]
    IN  [w EXCEPT !.calls = Append(@, "collect"),
                  !.playerCoins = Append(@, coin),
                  !.layers[k] = cache,
                  !.cacheMementos =
                      MapSet(@, positionToString(cache), toMemento(cache))]

\* variant: collect that rewrites the Directory with the one entry
collect_replacesDirectory(w, coin, k) ==
    LET coinIndex == indexOf(w.layers[k].coins, coin)
        cache == [w.layers[k] EXCEPT !.coins = splice(@, coinIndex)]
        w1 == [w EXCEPT !.calls = Append(@, "collect")]
    IN  IF coinIndex >= 1
        THEN [w1 EXCEPT !.playerCoins = Append(@, coin),
                        !.layers[k] = cache,
                        !.cacheMementos =
                            MapSet(EmptyMap, positionToString(cache),
                                   toMemento(cache))]
        ELSE w1

\* variant: collect that does not write the memento
collect_noPersist(w, coin, k) ==
    LET coinIndex == indexOf(w.layers[k].coins, coin)
        cache == [w.layers[k] EXCEPT !.coins = splice(@, coinIndex)]
        w1 == [w EXCEPT !.calls = Append(@, "collect")]
    IN  IF coinIndex >= 1
        THEN [w1 EXCEPT !.playerCoins = Append(@, coin),
                        !.layers[k] = cache]
        ELSE w1

collect(w, coin, k) ==
    LET coinIndex == indexOf(w.layers[k].coins, coin)
        cache == [w.layers[k] EXCEPT !.coins = splice(@, coinIndex)]
        w1 == [w EXCEPT !.calls = Append(@, "collect")]
    IN  IF coinIndex >= 1
        THEN [w1 EXCEPT !.playerCoins = Append(@, coin),
                        !.layers[k] = cache,
                        !.cacheMementos =
                            MapSet(@, positionToString(cache),
                                   toMemento(cache))]
        ELSE w1

\* variant: deposit that does not write the memento
deposit_noPersist(w, coin, k) ==
    LET coinIndex == indexOf(w.playerCoins, coin)
        cache == [w.layers[k] EXCEPT !.coins = Append(@, coin)]
        w1 == [w EXCEPT !.calls = Append(@, "deposit")]
    IN  IF coinIndex >= 1
        THEN [w1 EXCEPT !.playerCoins = splice(@, coinIndex),
                        !.layers[k] = cache]
        ELSE w1

\* variant: deposit that leaves the coin in the inventory
deposit_keepsCoin(w, coin, k) ==
    LET coinIndex == indexOf(w.playerCoins, coin)
        cache == [w.layers[k] EXCEPT !.coins = Append(@, coin)]
        w1 == [w EXCEPT !.calls = Append(@, "deposit")]
    IN  IF coinIndex >= 1
        THEN [w1 EXCEPT !.layers[k] = cache,
                        !.cacheMementos =
                            MapSet(@, positionToString(cache),
                                   toMemento(cache))]
        ELSE w1

deposit(w, coin, k) ==
    LET coinIndex == indexOf(w.playerCoins, coin)
        cache == [w.layers[k] EXCEPT !.coins = Append(@, coin)]
        w1 == [w EXCEPT !.calls = Append(@, "deposit")]
    IN  IF coinIndex >= 1
        THEN [w1 EXCEPT !.playerCoins = splice(@, coinIndex),
                        !.layers[k] = cache,
                        !.cacheMementos =
                            MapSet(@, positionToString(cache),
                                   toMemento(cache))]
        ELSE w1

\* ------------------------------------------------------------------ reset
\* the body of the reset click handler once the prompt is answered yes
\* variant: reset that keeps the Directory
resetGame_keepMementos(w, position) ==
    spawnNearbyCaches([w EXCEPT !.layers = <<>>,
                                !.playerCoins = <<>>],
                      position)

\* variant: reset that leaves the cache rectangles on the map
resetGame_keepLayers(w, position) ==
    spawnNearbyCaches([w EXCEPT !.cacheMementos = EmptyMap,
                                !.playerCoins = <<>>],
                      position)

resetGame(w, position) ==
    spawnNearbyCaches([w EXCEPT !.cacheMementos = EmptyMap,
                                !.layers = <<>>,
                                !.playerCoins = <<>>],
                      position)

\* ---------------------------------------------------------------- states
\* the globals as a handler finds them
W == [layers |-> layers, existingRectangles |-> existingRectangles,
      cacheMementos |-> cacheMementos, playerCoins |-> playerCoins,
      calls |-> <<>>]

NoCoin == [cell |-> getCell(0, 0), serial |-> 0]

Event(name, w) ==
    [name |-> name, calls |-> w.calls, layer |-> 0, coin |-> NoCoin,
     index |-> 0]

TransferEvent(name, w, k, coin, index) ==
    [name |-> name, calls |-> w.calls, layer |-> k, coin |-> coin,
     index |-> index]

RtIdle == [pc |-> "idle", cache |-> NewCache(getCell(0, 0)),
           memento |-> toMemento(NewCache(getCell(0, 0))),
           restored |-> NewCache(getCell(0, 0))]

SetW(w) ==
    /\ layers' = w.layers
    /\ existingRectangles' = w.existingRectangles
    /\ cacheMementos' = w.cacheMementos
    /\ playerCoins' = w.playerCoins

\* the module's top level: empty maps, then spawnNearbyCaches(OAKES_CLASSROOM)
Startup ==
    spawnNearbyCaches([layers |-> <<>>, existingRectangles |-> {},
                       cacheMementos |-> EmptyMap, playerCoins |-> <<>>,
                       calls |-> <<>>],
                      OAKES_CLASSROOM)

InitGame ==
    /\ player = OAKES_CLASSROOM
    /\ playerCoins = Startup.playerCoins
    /\ layers = Startup.layers
    /\ existingRectangles = Startup.existingRectangles
    /\ cacheMementos = Startup.cacheMementos
    /\ geolocationWatchId = NULL
    /\ watches = {}
    /\ event = Event("start", Startup)

\* CellFactory.cellCache = new Map(); no getCell call made yet
FactoryIdle == [cellCache |-> <<>>, allocated |-> 0, key |-> <<0, 0>>,
                cell |-> [i |-> 0, j |-> 0, id |-> 0]]

\* a run of the program: its globals after the module's top level
StartRun == [player |-> OAKES_CLASSROOM,
             w |-> [Startup EXCEPT !.calls = <<>>],
             geolocationWatchId |-> NULL]

Init ==
    /\ InitGame
    /\ rt = RtIdle
    /\ factory = FactoryIdle
    /\ runs = <<StartRun, StartRun>>

\* --------------------------------------------------------------- handlers
Directions == {<<1, 0>>, <<-1, 0>>, <<0, 1>>, <<0, -1>>}

calculateNewPosition(currentPosition, direction) ==
    [lat |-> currentPosition.lat + TILE_DEGREES * direction[1],
     lng |-> currentPosition.lng + TILE_DEGREES * direction[2]]

\* click on north / south / east / west
MoveButton(direction) ==
    LET newPosition == calculateNewPosition(player, direction)
    IN  /\ newPosition.lat \in Coords
        /\ newPosition.lng \in LngCoords
        /\ player' = newPosition
        /\ \E w \in {movePlayer(W, newPosition)} :
              SetW(w) /\ event' = Event("move", w)
        /\ UNCHANGED <<geolocationWatchId, watches, rt, factory, runs>>

\* the watchPosition callback
SensorPosition(lat, lng) ==
    LET newLocation == [lat |-> lat, lng |-> lng]
    IN  /\ watches # {}
        /\ player' = newLocation
        /\ \E w \in {movePlayer(W, newLocation)} :
              SetW(w) /\ event' = Event("sensor", w)
        /\ UNCHANGED <<geolocationWatchId, watches, rt, factory, runs>>

\* variant: stopping forgets the id without calling clearWatch
toggleGeolocationTracking_noClearWatch ==
    /\ IF geolocationWatchId = NULL
       THEN LET id == CHOOSE n \in 1..(Cardinality(watches) + 1) :
                          n \notin watches
            IN  /\ geolocationWatchId' = id
                /\ watches' = watches \cup {id}
       ELSE /\ watches' = watches
            /\ geolocationWatchId' = NULL
    /\ event' = Event("toggle", W)
    /\ UNCHANGED <<player, playerCoins, layers, existingRectangles,
                   cacheMementos, rt, factory, runs>>

\* click on the sensor button
toggleGeolocationTracking ==
    /\ IF geolocationWatchId = NULL
       THEN LET id == CHOOSE n \in 1..(Cardinality(watches) + 1) :
                          n \notin watches
            IN  /\ geolocationWatchId' = id
                /\ watches' = watches \cup {id}
       ELSE /\ watches' = watches \ {geolocationWatchId}
            /\ geolocationWatchId' = NULL
    /\ event' = Event("toggle", W)
    /\ UNCHANGED <<player, playerCoins, layers, existingRectangles,
                   cacheMementos, rt, factory, runs>>

\* variant: take offers the first token of the cache
Take_first(k) ==
    /\ Len(layers[k].coins) > 0
    /\ LET coin == layers[k].coins[1]
       IN  \E w \in {collect(W, coin, k)} :
               /\ SetW(w)
               /\ event' = TransferEvent("take", w, k, coin,
                                         indexOf(layers[k].coins, coin))
    /\ UNCHANGED <<player, geolocationWatchId, watches, rt, factory, runs>>

\* click on take in the popup of the cache of layers[k]
Take(k) ==
    /\ Len(layers[k].coins) > 0
    /\ LET coin == layers[k].coins[Len(layers[k].coins)]
       IN  \E w \in {collect(W, coin, k)} :
               /\ SetW(w)
               /\ event' = TransferEvent("take", w, k, coin,
                                         indexOf(layers[k].coins, coin))
    /\ UNCHANGED <<player, geolocationWatchId, watches, rt, factory, runs>>

\* click on give in the popup of the cache of layers[k]
Give(k) ==
    /\ Len(playerCoins) > 0
    /\ LET coin == playerCoins[Len(playerCoins)]
       IN  \E w \in {deposit(W, coin, k)} :
               /\ SetW(w)
               /\ event' = TransferEvent("give", w, k, coin,
                                         indexOf(playerCoins, coin))
    /\ UNCHANGED <<player, geolocationWatchId, watches, rt, factory, runs>>

\* click on reset, the prompt answered yes
Reset ==
    /\ \E w \in {resetGame(W, player)} :
          SetW(w) /\ event' = Event("reset", w)
    /\ UNCHANGED <<player, geolocationWatchId, watches, rt, factory, runs>>

Next ==
    \/ \E direction \in Directions : MoveButton(direction)
    \/ \E lat \in Coords, lng \in LngCoords : SensorPosition(lat, lng)
    \/ toggleGeolocationTracking
    \/ \E k \in 1..Len(layers) : Take(k)
    \/ \E k \in 1..Len(layers) : Give(k)
    \/ Reset

Spec == Init /\ [][Next]_vars

\* ------------------------------------------- collect / deposit as functions
\* every cell a neighbourhood of a player position can contain
WorldI ==
    ((0 - (MaxCoord + 1)) \div TILE_DEGREES - NEIGHBORHOOD_SIZE)
        .. (MaxCoord \div TILE_DEGREES + NEIGHBORHOOD_SIZE - 1)

WorldJ ==
    ((0 - LngSpan) \div TILE_DEGREES - NEIGHBORHOOD_SIZE)
        .. ((0 - 1) \div TILE_DEGREES + NEIGHBORHOOD_SIZE - 1)

CellObjects ==
    {[i |-> i, j |-> j, canon |-> c] : i \in WorldI, j \in WorldJ,
                                       c \in BOOLEAN}

\* every coin object the game can hold: the minted one and restored copies
CoinObjects ==
    {[cell |-> cell, serial |-> serial] :
        cell \in {c \in CellObjects :
                     luck(c.i, c.j) < CACHE_SPAWN_PROBABILITY},
        serial \in 0..(MaxInitialCoins - 1)}

\* collect(coin, cache) with any coin object and any live cache
CollectCall(coin, k) ==
    /\ \E w \in {collect(W, coin, k)} :
          /\ SetW(w)
          /\ event' = TransferEvent("collect", w, k, coin,
                                    indexOf(layers[k].coins, coin))
    /\ UNCHANGED <<player, geolocationWatchId, watches, rt, factory, runs>>

\* deposit(coin, cache) with any coin object and any live cache
DepositCall(coin, k) ==
    /\ \E w \in {deposit(W, coin, k)} :
          /\ SetW(w)
          /\ event' = TransferEvent("deposit", w, k, coin,
                                    indexOf(playerCoins, coin))
    /\ UNCHANGED <<player, geolocationWatchId, watches, rt, factory, runs>>

\* the transfers called directly, between button moves and resets
NextAPI ==
    \/ \E direction \in Directions : MoveButton(direction)
    \/ Reset
    \/ \E coin \in CoinObjects, k \in 1..Len(layers) : CollectCall(coin, k)
    \/ \E coin \in CoinObjects, k \in 1..Len(layers) : DepositCall(coin, k)

SpecAPI == Init /\ [][NextAPI]_vars

\* ------------------------------------------------------- the memento codec
RECURSIVE SeqsUpTo(_, _)
SeqsUpTo(S, n) ==
    IF n = 0 THEN {<<>>}
    ELSE LET shorter == SeqsUpTo(S, n - 1)
         IN  shorter \cup {Append(s, x) : s \in shorter, x \in S}

CodecCaches ==
    {[coins |-> coins, position |-> position] :
        coins \in SeqsUpTo(CoinObjects, MaxLen), position \in CellObjects}

InitCodec ==
    /\ InitGame
    /\ rt \in {[RtIdle EXCEPT !.pc = "made", !.cache = c] : c \in CodecCaches}
    /\ factory = FactoryIdle
    /\ runs = <<StartRun, StartRun>>

CodecToMemento ==
    /\ rt.pc = "made"
    /\ rt' = [rt EXCEPT !.pc = "saved", !.memento = toMemento(rt.cache)]
    /\ UNCHANGED <<player, playerCoins, layers, existingRectangles,
                   cacheMementos, geolocationWatchId, watches,
                   event, factory, runs>>

\* new Cache(cell, bounds) for any cell, then fromMemento
CodecFromMemento(i, j) ==
    /\ rt.pc = "saved"
    /\ rt' = [rt EXCEPT !.pc = "restored",
                        !.restored = fromMemento(NewCache(getCell(i, j)),
                                                 rt.memento)]
    /\ UNCHANGED <<player, playerCoins, layers, existingRectangles,
                   cacheMementos, geolocationWatchId, watches,
                   event, factory, runs>>

NextCodec ==
    \/ CodecToMemento
    \/ \E i \in WorldI, j \in WorldJ : CodecFromMemento(i, j)

SpecCodec == InitCodec /\ [][NextCodec]_vars

\* ------------------------------------------------------ the cell registry
\* cellCache is a Map in insertion order: a sequence of [key, cell] entries
MapHas(entries, key) == \E n \in 1..Len(entries) : entries[n].key = key

MapGet(entries, key) ==
    entries[CHOOSE n \in 1..Len(entries) : entries[n].key = key].cell

\* Map.prototype.set: replaces the value of a present key, else appends
MapPut(entries, key, cell) ==
    IF MapHas(entries, key)
    THEN [n \in 1..Len(entries) |->
             IF entries[n].key = key THEN [key |-> key, cell |-> cell]
             ELSE entries[n]]
    ELSE Append(entries, [key |-> key, cell |-> cell])

\* variant: getCell that sets a new object on every call
CellFactoryGetCell_alwaysSet(f, i, j) ==
    LET key == <<i, j>>
        entries == MapPut(f.cellCache, key,
                          [i |-> i, j |-> j, id |-> f.allocated + 1])
    IN  [cellCache |-> entries, allocated |-> f.allocated + 1,
         key |-> key, cell |-> MapGet(entries, key)]

\* CellFactory.getCell on the registry f; the result is f.cell
CellFactoryGetCell(f, i, j) ==
    LET key == <<i, j>>
        missing == ~MapHas(f.cellCache, key)
        entries == IF missing
                   THEN MapPut(f.cellCache, key,
                               [i |-> i, j |-> j, id |-> f.allocated + 1])
                   ELSE f.cellCache
    IN  [cellCache |-> entries,
         allocated |-> IF missing THEN f.allocated + 1 ELSE f.allocated,
         key |-> key, cell |-> MapGet(entries, key)]

\* the coordinates getCell is called with
RegistryI == {0, 3}

RegistryJ == {0 - 5, 0 - 6}

GetCellCall(i, j) ==
    /\ factory' = CellFactoryGetCell(factory, i, j)
    /\ UNCHANGED <<player, playerCoins, layers, existingRectangles,
                   cacheMementos, geolocationWatchId, watches, event, rt, runs>>

NextRegistry == \E i \in RegistryI, j \in RegistryJ : GetCellCall(i, j)

SpecRegistry == Init /\ [][NextRegistry]_vars

\* ------------------------------------------------- two runs, one event
\* The handlers as functions of a run s = [player, w, geolocationWatchId].
\* Both runs receive every movement, take, give and reset; each run's sensor
\* button is clicked on its own, and the id watchPosition returns is the
\* browser's choice.
TrackIds == 1..2

\* variant: a movement respawns the caches only while tracking is off
runMovePlayer_untrackedOnly(s, newPosition) ==
    IF s.geolocationWatchId = NULL
    THEN [s EXCEPT !.player = newPosition,
                   !.w = [movePlayer(s.w, newPosition)
                              EXCEPT !.calls = <<>>]]
    ELSE [s EXCEPT !.player = newPosition]

runMovePlayer(s, newPosition) ==
    [s EXCEPT !.player = newPosition,
              !.w = [movePlayer(s.w, newPosition) EXCEPT !.calls = <<>>]]

runTake(s, k) ==
    LET coins == s.w.layers[k].coins
    IN  IF Len(coins) > 0
        THEN [s EXCEPT !.w = [collect(s.w, coins[Len(coins)], k)
                                  EXCEPT !.calls = <<>>]]
        ELSE s

runGive(s, k) ==
    LET coins == s.w.playerCoins
    IN  IF Len(coins) > 0
        THEN [s EXCEPT !.w = [deposit(s.w, coins[Len(coins)], k)
                                  EXCEPT !.calls = <<>>]]
        ELSE s

runReset(s) ==
    [s EXCEPT !.w = [resetGame(s.w, s.player) EXCEPT !.calls = <<>>]]

runToggle(s, id) ==
    [s EXCEPT !.geolocationWatchId =
                  IF s.geolocationWatchId = NULL THEN id ELSE NULL]

GameUnchanged ==
    UNCHANGED <<player, playerCoins, layers, existingRectangles,
                cacheMementos, geolocationWatchId, watches, event, rt,
                factory>>

BothMoveButton(direction) ==
    /\ \A r \in 1..2 :
          LET newPosition == calculateNewPosition(runs[r].player, direction)
          IN  newPosition.lat \in Coords /\ newPosition.lng \in LngCoords
    /\ runs' = [r \in 1..2 |->
                   runMovePlayer(runs[r],
                                 calculateNewPosition(runs[r].player,
                                                      direction))]
    /\ GameUnchanged

BothSensorPosition(lat, lng) ==
    /\ \A r \in 1..2 : runs[r].geolocationWatchId # NULL
    /\ runs' = [r \in 1..2 |->
                   runMovePlayer(runs[r], [lat |-> lat, lng |-> lng])]
    /\ GameUnchanged

BothTake(k) ==
    /\ \A r \in 1..2 : k <= Len(runs[r].w.layers)
    /\ \E r \in 1..2 : Len(runs[r].w.layers[k].coins) > 0
    /\ runs' = [r \in 1..2 |-> runTake(runs[r], k)]
    /\ GameUnchanged

BothGive(k) ==
    /\ \A r \in 1..2 : k <= Len(runs[r].w.layers)
    /\ \E r \in 1..2 : Len(runs[r].w.playerCoins) > 0
    /\ runs' = [r \in 1..2 |-> runGive(runs[r], k)]
    /\ GameUnchanged

BothReset ==
    /\ runs' = [r \in 1..2 |-> runReset(runs[r])]
    /\ GameUnchanged

OneToggle(r, id) ==
    /\ runs' = [runs EXCEPT ![r] = runToggle(runs[r], id)]
    /\ GameUnchanged

NextReplay ==
    \/ \E direction \in Directions : BothMoveButton(direction)
    \/ \E lat \in Coords, lng \in LngCoords : BothSensorPosition(lat, lng)
    \/ \E k \in 1..Len(runs[1].w.layers) : BothTake(k)
    \/ \E k \in 1..Len(runs[1].w.layers) : BothGive(k)
    \/ BothReset
    \/ \E r \in 1..2, id \in TrackIds : OneToggle(r, id)

SpecReplay == Init /\ [][NextReplay]_vars

\* ------------------------------------------------------------ properties
Triple(coin) == <<coin.cell.i, coin.cell.j, coin.serial>>

RECURSIVE Triples(_)
Triples(coins) ==
    IF coins = <<>> THEN <<>>
    ELSE <<Triple(Head(coins))>> \o Triples(Tail(coins))

RECURSIVE InitialTriples(_, _, _)
InitialTriples(i, j, n) ==
    IF n = 0 THEN <<>>
    ELSE Append(InitialTriples(i, j, n - 1), <<i, j, n - 1>>)

KeysOf(ls) == {positionToString(ls[k]) : k \in 1..Len(ls)}

LiveKeys == KeysOf(layers)

MoveNames == {"move", "sensor"}

CollectNames == {"take", "collect"}

DepositNames == {"give", "deposit"}

Offsets == (0 - NEIGHBORHOOD_SIZE) .. (NEIGHBORHOOD_SIZE - 1)

\* the cells of the window around a position whose spawn decision is true
SpawnCells(position) ==
    {key \in {<<(position.lat \div TILE_DEGREES) + di,
                (position.lng \div TILE_DEGREES) + dj>> :
                    di \in Offsets, dj \in Offsets} :
        luck(key[1], key[2]) < CACHE_SPAWN_PROBABILITY}

\* C1: a movement respawns a cache with the token list it held before
\* teardown: a cell live before and after keeps its ordered (i, j, serial)
\* list; a cell that comes back into the window resumes the list its
\* Directory entry holds; and that entry is not touched while the cell is
\* away (short of a reset). The list is never regenerated, also when empty.
C1_RespawnKeepsTokens ==
    [][/\ event'.name \in MoveNames =>
            \A k \in 1..Len(layers), m \in 1..Len(layers') :
                positionToString(layers'[m]) = positionToString(layers[k])
                    => Triples(layers'[m].coins) = Triples(layers[k].coins)
       /\ event'.name \in MoveNames =>
            \A m \in 1..Len(layers') :
                LET key == positionToString(layers'[m])
                IN  (key \notin LiveKeys /\ key \in DOMAIN cacheMementos)
                        => Triples(layers'[m].coins)
                               = Triples(cacheMementos[key].coins)
       /\ event'.name # "reset" =>
            \A key \in (DOMAIN cacheMementos) \ LiveKeys :
                /\ key \in DOMAIN cacheMementos'
                /\ cacheMementos'[key] = cacheMementos[key]
      ]_vars

\* a cache that a movement respawned empty although it is generated non-empty
C1_Witness ==
    /\ event.name \in MoveNames
    /\ \E k \in 1..Len(layers) :
          /\ layers[k].coins = <<>>
          /\ luckInitialValue(layers[k].position.i, layers[k].position.j) > 0

\* C2: fromMemento(toMemento()) on a fresh Cache gives back the position
\* (i, j), the token count and the ordered (cell.i, cell.j, serial) triples,
\* for every cache state including empty lists and foreign tokens.
C2_RoundTrip ==
    rt.pc = "restored" =>
        /\ rt.restored.position.i = rt.cache.position.i
        /\ rt.restored.position.j = rt.cache.position.j
        /\ Len(rt.restored.coins) = Len(rt.cache.coins)
        /\ Triples(rt.restored.coins) = Triples(rt.cache.coins)

\* a restored cache with two different tokens, one minted at another cell
C2_Witness ==
    /\ rt.pc = "restored"
    /\ Len(rt.cache.coins) >= 2
    /\ rt.cache.coins[1] # rt.cache.coins[2]
    /\ \E k \in 1..Len(rt.cache.coins) :
          rt.cache.coins[k].cell.i # rt.cache.position.i

\* C3: collect with a token that is not in cache.coins, and deposit with a
\* token that is not in the inventory, leave the cache lists, the inventory
\* and the Directory unchanged; so does a second collect (deposit) of the
\* same token on the same cache right after a successful one.
C3_AbsentTokenNoOp ==
    [][/\ (/\ event'.name \in CollectNames
           /\ event'.coin \notin Range(layers[event'.layer].coins))
            => UNCHANGED <<layers, playerCoins, cacheMementos>>
       /\ (/\ event'.name \in DepositNames
           /\ event'.coin \notin Range(playerCoins))
            => UNCHANGED <<layers, playerCoins, cacheMementos>>
       /\ (/\ event.name \in CollectNames /\ event.index >= 1
           /\ event'.name \in CollectNames
           /\ event'.coin = event.coin /\ event'.layer = event.layer)
            => UNCHANGED <<layers, playerCoins, cacheMementos>>
       /\ (/\ event.name \in DepositNames /\ event.index >= 1
           /\ event'.name \in DepositNames
           /\ event'.coin = event.coin /\ event'.layer = event.layer)
            => UNCHANGED <<layers, playerCoins, cacheMementos>>
      ]_vars

\* collect was called with a token the player already holds
C3_Witness ==
    /\ event.name = "collect"
    /\ event.index = 0
    /\ event.coin \in Range(playerCoins)

\* C4: collect with a token of the cache removes it from the cache, makes it
\* the last inventory element, keeps the order of the other cache tokens
\* and of the earlier inventory, and stores the memento of the new cache
\* state under the cache's cell key.
C4_Collect ==
    [][(/\ event'.name \in CollectNames
        /\ event'.coin \in Range(layers[event'.layer].coins))
        => LET k == event'.layer
               coin == event'.coin
               key == positionToString(layers[k])
           IN  /\ coin \notin Range(layers'[k].coins)
               /\ playerCoins' = Append(playerCoins, coin)
               /\ layers'[k].coins
                      = SelectSeq(layers[k].coins, LAMBDA x : x # coin)
               /\ key \in DOMAIN cacheMementos'
               /\ cacheMementos'[key] = toMemento(layers'[k])
      ]_vars

\* the first of two cache tokens was collected into a non-empty inventory
C4_Witness ==
    /\ event.name = "collect"
    /\ event.index = 1
    /\ Len(layers[event.layer].coins) >= 1
    /\ Len(playerCoins) >= 2

\* C5: deposit with a token of the inventory removes it from the inventory,
\* makes it the last element of cache.coins, and stores the memento of the
\* new cache state under the cache's cell key.
C5_Deposit ==
    [][(/\ event'.name \in DepositNames
        /\ event'.coin \in Range(playerCoins))
        => LET k == event'.layer
               coin == event'.coin
               key == positionToString(layers[k])
           IN  /\ coin \notin Range(playerCoins')
               /\ Len(layers'[k].coins) = Len(layers[k].coins) + 1
               /\ layers'[k].coins[Len(layers'[k].coins)] = coin
               /\ key \in DOMAIN cacheMementos'
               /\ cacheMementos'[key] = toMemento(layers'[k])
      ]_vars

\* a token was deposited into a cache of another cell than its own
C5_Witness ==
    /\ event.name = "deposit"
    /\ event.index >= 1
    /\ event.coin.cell.i # layers[event.layer].position.i
    /\ event.coin \in Range(layers[event.layer].coins)

\* C6: after a reset the Directory is empty, the inventory is empty, and the
\* live caches are those of the original generation around the player: one
\* per spawn cell of the window, each with serials 0..initialTokenCount-1.
C6_ResetRegenerates ==
    event.name = "reset" =>
        /\ DOMAIN cacheMementos = {}
        /\ playerCoins = <<>>
        /\ Len(layers) = Cardinality(SpawnCells(player))
        /\ LiveKeys = SpawnCells(player)
        /\ \A k \in 1..Len(layers) :
              LET i == layers[k].position.i
                  j == layers[k].position.j
              IN  Triples(layers[k].coins)
                      = InitialTriples(i, j, luckInitialValue(i, j))

\* a reset away from the starting position, with caches regenerated
C6_Witness ==
    /\ event.name = "reset"
    /\ player # OAKES_CLASSROOM
    /\ Len(layers) >= 1

\* C7: after a movement the cells with a live cache are exactly the cells at
\* offsets -N..N-1 from the centre cell whose spawn decision is true.
C7_WindowExact ==
    event.name \in MoveNames =>
        /\ LiveKeys = SpawnCells(player)
        /\ Len(layers) = Cardinality(SpawnCells(player))

\* after a movement a spawning cell sits at offset +N, just outside
C7_Witness ==
    /\ event.name \in MoveNames
    /\ Len(layers) >= 1
    /\ \E dj \in Offsets :
          LET i == (player.lat \div TILE_DEGREES) + NEIGHBORHOOD_SIZE
              j == (player.lng \div TILE_DEGREES) + dj
          IN  /\ luck(i, j) < CACHE_SPAWN_PROBABILITY
              /\ <<i, j>> \notin LiveKeys

\* C8: clearCaches stores the memento of every live cache under its cell
\* key and leaves no live cache; after a movement every cell that had a
\* live cache has a Directory entry equal to its last live state.
C8_TeardownCaptures ==
    [][/\ \A w \in {clearCaches(W)} :
              /\ w.layers = <<>>
              /\ \A k \in 1..Len(layers) :
                    LET key == positionToString(layers[k])
                    IN  /\ key \in DOMAIN w.cacheMementos
                        /\ w.cacheMementos[key] = toMemento(layers[k])
       /\ event'.name \in MoveNames =>
            \A k \in 1..Len(layers) :
                LET key == positionToString(layers[k])
                IN  /\ key \in DOMAIN cacheMementos'
                    /\ cacheMementos'[key] = toMemento(layers[k])
      ]_vars

\* a torn-down cell whose entry differs from its generated state
C8_Witness ==
    /\ event.name \in MoveNames
    /\ \E key \in (DOMAIN cacheMementos) \ LiveKeys :
          Len(cacheMementos[key].coins) # luckInitialValue(key[1], key[2])

\* C9: a movement event calls clearCaches once and then spawnNearbyCaches
\* once at the new position, nothing else: the state after it is the state
\* before it torn down and respawned, with the inventory as it was.
C9_MoveIsClearThenSpawn ==
    [][event'.name \in MoveNames =>
         \A w \in {spawnNearbyCaches(clearCaches(W), player')} :
             /\ event'.calls = <<"clearCaches", "spawnNearbyCaches">>
             /\ layers' = w.layers
             /\ existingRectangles' = w.existingRectangles
             /\ cacheMementos' = w.cacheMementos
             /\ playerCoins' = playerCoins
      ]_vars

\* the position sensor moved the player while tokens were in the inventory
C9_Witness ==
    /\ event.name = "sensor"
    /\ event.calls = <<"clearCaches", "spawnNearbyCaches">>
    /\ playerCoins # <<>>
    /\ layers # <<>>

\* C10: no two cache rectangles on the map are at the same cell.
C10_OneLiveCachePerCell ==
    \A k \in 1..Len(layers), m \in 1..Len(layers) :
        positionToString(layers[k]) = positionToString(layers[m]) => k = m

\* two live caches right after a reset
C10_Witness ==
    /\ event.name = "reset"
    /\ Len(layers) >= 2

\* C11: getCell(i, j) returns the instance every earlier call with the same
\* (i, j) returned, whatever calls came in between; instances of different
\* pairs differ; and the registry never holds two records for one pair.
C11_FlyweightIdentity ==
    [][/\ \A n \in 1..Len(factory.cellCache) :
             /\ factory'.key = factory.cellCache[n].key
                    => factory'.cell = factory.cellCache[n].cell
             /\ MapHas(factory'.cellCache, factory.cellCache[n].key)
             /\ MapGet(factory'.cellCache, factory.cellCache[n].key)
                    = factory.cellCache[n].cell
       /\ <<factory'.cell.i, factory'.cell.j>> = factory'.key
       /\ \A n \in 1..Len(factory'.cellCache),
             m \in 1..Len(factory'.cellCache) :
             n # m => /\ factory'.cellCache[n].key # factory'.cellCache[m].key
                      /\ factory'.cellCache[n].cell.id
                             # factory'.cellCache[m].cell.id
      ]_vars

\* the pair registered first is asked for again after two other pairs
C11_Witness ==
    /\ Len(factory.cellCache) >= 3
    /\ factory.key = factory.cellCache[1].key
    /\ factory.cell = factory.cellCache[1].cell

\* C12: a movement, a collection or a deposit never takes a key out of the
\* Directory; a reset is the only step that does, and it leaves no key.
C12_KeysOnlyGrow ==
    [][/\ event'.name # "reset"
              => DOMAIN cacheMementos \subseteq DOMAIN cacheMementos'
       /\ event'.name = "reset" => DOMAIN cacheMementos' = {}
      ]_vars

\* a movement has left a Directory entry for a cell outside the window
C12_Witness ==
    /\ event.name \in MoveNames
    /\ \E key \in DOMAIN cacheMementos : key \notin LiveKeys

\* C13: a cache spawned for a cell with no Directory entry receives exactly
\* luck(i, j, "initialValue") * 100 rounded down tokens, each minted at that
\* cell's canonical instance, with serials 0, 1, ... in list order.
C13_FreshSpawnMint ==
    event.name \in MoveNames \cup {"reset", "start"} =>
        \A k \in 1..Len(layers) :
            LET i == layers[k].position.i
                j == layers[k].position.j
            IN  <<i, j>> \notin DOMAIN cacheMementos =>
                    /\ Len(layers[k].coins) = luckInitialValue(i, j)
                    /\ \A n \in 1..Len(layers[k].coins) :
                          /\ layers[k].coins[n].cell = getCell(i, j)
                          /\ layers[k].coins[n].serial = n - 1

\* a movement spawns a cell that has no entry beside one that has an entry
C13_Witness ==
    /\ event.name \in MoveNames
    /\ \E k \in 1..Len(layers) :
          /\ positionToString(layers[k]) \notin DOMAIN cacheMementos
          /\ Len(layers[k].coins) = MaxInitialCoins
    /\ \E k \in 1..Len(layers) :
          positionToString(layers[k]) \in DOMAIN cacheMementos

\* the state of a run the two runs are compared on: the live cells, the
\* ordered tokens of each live cache, the inventory, the Directory
Observed(s) ==
    [live |-> KeysOf(s.w.layers),
     tokens |-> {<<positionToString(s.w.layers[k]),
                   Triples(s.w.layers[k].coins)>> :
                     k \in 1..Len(s.w.layers)},
     inventory |-> Triples(s.w.playerCoins),
     directory |-> s.w.cacheMementos]

C15_FloorQuantization ==
    \A ki \in Coords \cup LngCoords, kj \in Coords \cup LngCoords :
        (/\ ki * TILE_DEGREES <= player.lat
         /\ player.lat < (ki + 1) * TILE_DEGREES
         /\ kj * TILE_DEGREES <= player.lng
         /\ player.lng < (kj + 1) * TILE_DEGREES)
        => /\ getCellFromLatLng(player.lat, player.lng) = getCell(ki, kj)
           /\ LiveKeys = {key \in {<<ki + di, kj + dj>> :
                                      di \in Offsets, dj \in Offsets} :
                             luck(key[1], key[2]) < CACHE_SPAWN_PROBABILITY}

\* the sensor reports a negative latitude and longitude inside a tile
C15_Witness ==
    /\ event.name = "sensor"
    /\ player.lat < 0 /\ player.lat % TILE_DEGREES # 0
    /\ player.lng < 0 /\ player.lng % TILE_DEGREES # 0
    /\ LiveKeys # {}

\* C16: at most one position subscription is registered at any time; a
\* click on the sensor button starts tracking when it is off and stops it
\* when it is on, and nothing else starts or stops it; a sensor movement is
\* processed only while tracking is on.
C16_OneSubscription ==
    [][/\ Cardinality(watches') <= 1
       /\ event'.name = "toggle"
              => /\ (geolocationWatchId = NULL) # (geolocationWatchId' = NULL)
                 /\ geolocationWatchId' = NULL => watches' = {}
                 /\ geolocationWatchId' # NULL
                        => watches' = {geolocationWatchId'}
       /\ event'.name # "toggle" => UNCHANGED <<geolocationWatchId, watches>>
       /\ event'.name = "sensor" => geolocationWatchId # NULL
      ]_vars

\* tracking was started, moved the player, and has been stopped
C16_Witness ==
    /\ event.name = "toggle"
    /\ geolocationWatchId = NULL
    /\ watches = {}
    /\ player.lat % TILE_DEGREES = 0

\* C17: take moves the last token of the cache's list to the end of the
\* inventory and leaves the tokens before it in order; give moves the last
\* token of the inventory to the end of the cache's list; also for a cache
\* that was torn down and restored.
C17_StackDiscipline ==
    [][/\ event'.name = "take" =>
             LET k == event'.layer
                 coins == layers[k].coins
             IN  /\ Len(coins) > 0
                 /\ event'.coin = coins[Len(coins)]
                 /\ playerCoins' = Append(playerCoins, coins[Len(coins)])
                 /\ layers'[k].coins = SubSeq(coins, 1, Len(coins) - 1)
       /\ event'.name = "give" =>
             LET k == event'.layer
                 coin == playerCoins[Len(playerCoins)]
             IN  /\ Len(playerCoins) > 0
                 /\ event'.coin = coin
                 /\ playerCoins' = SubSeq(playerCoins, 1, Len(playerCoins) - 1)
                 /\ layers'[k].coins = Append(layers[k].coins, coin)
      ]_vars

\* take on a restored cache that held several tokens
C17_Witness ==
    /\ event.name = "take"
    /\ ~layers[event.layer].position.canon
    /\ Len(layers[event.layer].coins) >= 1
    /\ Len(playerCoins) >= 1

\* the tokens the cache of a cell without a live cache would come back with:
\* those of its Directory entry, else those of a fresh generation
Dormant(key) ==
    IF key \in DOMAIN cacheMementos
    THEN fromMemento(NewCache(getCell(key[1], key[2])),
                     cacheMementos[key]).coins
    ELSE IF luck(key[1], key[2]) < CACHE_SPAWN_PROBABILITY
    THEN mintCoins(getCell(key[1], key[2]), 0,
                   luckInitialValue(key[1], key[2]))
    ELSE <<>>

WorldCells == {<<i, j>> : i \in WorldI, j \in WorldJ}

\* every place that holds the token t: a slot of the inventory, of a live
\* cache, or of the dormant cache of a cell that is not live
Holders(t) ==
    {<<"inventory", 0, n>> : n \in {m \in 1..Len(playerCoins) :
                                       Triple(playerCoins[m]) = t}}
    \cup UNION {{<<"live", k, n>> :
                    n \in {m \in 1..Len(layers[k].coins) :
                              Triple(layers[k].coins[m]) = t}} :
                k \in 1..Len(layers)}
    \cup UNION {{<<"dormant", key, n>> :
                    n \in {m \in 1..Len(Dormant(key)) :
                              Triple(Dormant(key)[m]) = t}} :
                key \in WorldCells \ LiveKeys}

WorldTokens ==
    UNION {Range(InitialTriples(key[1], key[2],
                                luckInitialValue(key[1], key[2]))) :
           key \in {c \in WorldCells :
                       luck(c[1], c[2]) < CACHE_SPAWN_PROBABILITY}}

\* C18: every token (i, j, serial) the world generates is held in exactly
\* one place: one slot of the inventory, of a live cache, or of a cache that
\* would be restored from the Directory or generated afresh; no other token
\* is held anywhere.
C18_TokenHeldOnce ==
    /\ \A t \in WorldTokens : Cardinality(Holders(t)) = 1
    /\ \A n \in 1..Len(playerCoins) : Triple(playerCoins[n]) \in WorldTokens
    /\ \A k \in 1..Len(layers) : \A n \in 1..Len(layers[k].coins) :
          Triple(layers[k].coins[n]) \in WorldTokens
    /\ \A key \in DOMAIN cacheMementos : \A n \in 1..Len(Dormant(key)) :
          Triple(Dormant(key)[n]) \in WorldTokens

\* a token lies in a cache of another cell, one is in the inventory, and a
\* cell outside the window has a Directory entry
C18_Witness ==
    /\ \E k \in 1..Len(layers) : \E n \in 1..Len(layers[k].coins) :
          <<layers[k].coins[n].cell.i, layers[k].coins[n].cell.j>>
              # positionToString(layers[k])
    /\ Len(playerCoins) > 0
    /\ \E key \in DOMAIN cacheMementos : key \notin LiveKeys

\* C19: after every event, the Directory entry of a cell that has a live
\* cache is the memento of that cache as it is now: same position, same
\* tokens in the same order.
C19_DirectoryFresh ==
    \A k \in 1..Len(layers) :
        positionToString(layers[k]) \in DOMAIN cacheMementos
            => cacheMementos[positionToString(layers[k])]
                   = toMemento(layers[k])

\* a transfer has just changed a restored cache that has an entry
C19_Witness ==
    /\ event.name \in {"take", "give"}
    /\ ~layers[event.layer].position.canon
    /\ positionToString(layers[event.layer]) \in DOMAIN cacheMementos
    /\ Len(layers[event.layer].coins) > 0

\* C20: the position of every live cache, and the cell of every token in a
\* cache or in the inventory, is the instance getCell returns for its
\* (i, j), also after a restore by fromMemento.
C20_CanonicalCells ==
    /\ \A k \in 1..Len(layers) :
          /\ layers[k].position
                 = getCell(layers[k].position.i, layers[k].position.j)
          /\ \A n \in 1..Len(layers[k].coins) :
                layers[k].coins[n].cell
                    = getCell(layers[k].coins[n].cell.i,
                              layers[k].coins[n].cell.j)
    /\ \A n \in 1..Len(playerCoins) :
          playerCoins[n].cell
              = getCell(playerCoins[n].cell.i, playerCoins[n].cell.j)

\* C21: no startup, movement, take, give or reset makes spawnCache return
\* through its early branch (key in existingRectangles and a memento
\* present), which would restore a cache without a rectangle; and after
\* every event the keys of existingRectangles are exactly the cells that
\* have a live cache.
C21_EveryCacheHasSurface ==
    /\ "spawnCache returns early" \notin Range(event.calls)
    /\ existingRectangles = LiveKeys
    /\ Cardinality(existingRectangles) = Len(layers)

\* a reset has respawned caches for keys existingRectangles still held
C21_Witness ==
    /\ event.name = "reset"
    /\ existingRectangles # {}
    /\ existingRectangles = SpawnCells(player)

\* C22: a collect or a deposit on a cache leaves every other live cache,
\* the cache's own position, the set of rectangles, the player position and
\* every Directory entry of another cell as they were, and adds no entry
\* but the cache's own; a movement leaves the inventory as it was.
C22_FrameEffects ==
    [][/\ event'.name \in CollectNames \cup DepositNames =>
             LET k == event'.layer
                 own == positionToString(layers[k])
             IN  /\ Len(layers') = Len(layers)
                 /\ \A n \in 1..Len(layers) :
                       n # k => layers'[n] = layers[n]
                 /\ layers'[k].position = layers[k].position
                 /\ \A key \in DOMAIN cacheMementos \ {own} :
                       /\ key \in DOMAIN cacheMementos'
                       /\ cacheMementos'[key] = cacheMementos[key]
                 /\ DOMAIN cacheMementos'
                        \subseteq DOMAIN cacheMementos \cup {own}
                 /\ existingRectangles' = existingRectangles
                 /\ player' = player
       /\ event'.name \in MoveNames => playerCoins' = playerCoins
      ]_vars

\* a collect took a token from one of two live caches while another cell
\* had a Directory entry
C22_Witness ==
    /\ event.name \in CollectNames
    /\ event.index >= 1
    /\ Len(layers) >= 2
    /\ \E key \in DOMAIN cacheMementos :
          key # positionToString(layers[event.layer])

====
